---- MODULE Spec2Model ----
(***************************************************************************)
(* A model of codespell_lib/spellchecker.py: the misspelling table of a    *)
(* Spellchecker, the dictionary loader, the built-in dictionary registry   *)
(* with its load-once guard, and the line matcher.                         *)
(*                                                                         *)
(* A Python str is a sequence of characters; a character is a one-element  *)
(* TLA+ string, except U+2019, which is the value RightQuote.  A file is   *)
(* its text; readlines gives the lines the iteration `for line in f`       *)
(* delivers.                                                               *)
(*                                                                         *)
(* spellcheck_line is a generator function.  Its call runs none of its     *)
(* body; each next() on the generator runs the body up to the next yield   *)
(* or to the end, and between two of them the caller can make any other    *)
(* call on the engine.                                                     *)
(*                                                                         *)
(* The files of the built-in dictionaries are not part of the sources.     *)
(* Their text is an input of the model, data_root, chosen at the start     *)
(* among directories that agree with the example of the class docstring.   *)
(***************************************************************************)
EXTENDS Integers, Sequences, FiniteSets, TLC

VARIABLES
    misspellings,        \* self._misspellings: key -> Misspelling
    builtin_loaded,      \* self._builtin_loaded
    ignore_words_cased,  \* self.ignore_words_cased
    data_root,           \* the text of the files dictionary<suffix>.txt under _data_root
    gen,                 \* the generator the last call of spellcheck_line returned
    issues,              \* what that generator has yielded so far
    call,                \* the last step made on the engine, with its arguments and outcome
    pre,                 \* the engine's fields as they were when that step was made
    merged,              \* names of the built-in dictionaries merged into the table so far
    completed,           \* number of load_builtin_dictionaries calls that returned normally
    nops                 \* number of calls made so far

vars ==
    <<misspellings, builtin_loaded, ignore_words_cased, data_root, gen, issues, call, pre,
      merged, completed, nops>>

(***************************************************************************)
(* Bounds of the model.                                                    *)
(***************************************************************************)
\* calls made on an engine after its construction, when it is loaded
MaxOps == 2
\* calls made on an engine after its construction, when it is used to check lines
MaxCalls == 2
\* length of the name sequences a bulk load is compared with
MaxNames == 3
\* length of the strings the parser is applied to on its own
MaxLen == 4

(***************************************************************************)
(* Characters and the str methods the program uses.                        *)
(***************************************************************************)
RightQuote == "U+2019"

\* the characters of the model in code point order (U+2019 is the largest)
CodePointOrder ==
    <<"\t", "\n", "\f", "\r", " ", "'", ",", "-", "=", ">",
      "A", "B", "C", "D", "E", "F", "G", "H", "I", "J", "K", "L", "M",
      "N", "O", "P", "Q", "R", "S", "T", "U", "V", "W", "X", "Y", "Z",
      "\\", "_",
      "a", "b", "c", "d", "e", "f", "g", "h", "i", "j", "k", "l", "m",
      "n", "o", "p", "q", "r", "s", "t", "u", "v", "w", "x", "y", "z",
      RightQuote>>

Ord(c) == CHOOSE i \in 1..Len(CodePointOrder) : CodePointOrder[i] = c

UpperCase == <<"A", "B", "C", "D", "E", "F", "G", "H", "I", "J", "K", "L", "M",
               "N", "O", "P", "Q", "R", "S", "T", "U", "V", "W", "X", "Y", "Z">>

LowerCase == <<"a", "b", "c", "d", "e", "f", "g", "h", "i", "j", "k", "l", "m",
               "n", "o", "p", "q", "r", "s", "t", "u", "v", "w", "x", "y", "z">>

Whitespace == {" ", "\t", "\n", "\r", "\f"}

\* Body of the value of e.  The value is computed once, where a LET would have it
\* computed again at every use of the name.
Bind(e, Body(_)) == CHOOSE out \in {Body(v) : v \in {e}} : TRUE

Chars(s) == {s[i] : i \in 1..Len(s)}

\* s[i:] for a 0-based i >= 0
From(s, i) == SubSeq(s, i + 1, Len(s))

\* str.lower
lower(s) ==
    [i \in 1..Len(s) |->
        IF \E j \in 1..26 : UpperCase[j] = s[i]
        THEN LowerCase[CHOOSE j \in 1..26 : UpperCase[j] = s[i]]
        ELSE s[i]]

\* str.lstrip, str.rstrip and str.strip without arguments
RECURSIVE lstrip(_)
lstrip(s) == IF s # <<>> /\ s[1] \in Whitespace THEN lstrip(Tail(s)) ELSE s

RECURSIVE rstrip(_)
rstrip(s) ==
    IF s # <<>> /\ s[Len(s)] \in Whitespace THEN rstrip(SubSeq(s, 1, Len(s) - 1)) ELSE s

strip(s) == rstrip(lstrip(s))

\* str.find as a 1-based position, 0 when sep does not occur
find(s, sep) ==
    Bind({i \in 1..(Len(s) - Len(sep) + 1) : SubSeq(s, i, i + Len(sep) - 1) = sep},
         LAMBDA hits : IF hits = {} THEN 0 ELSE CHOOSE i \in hits : \A j \in hits : i <= j)

\* str.rfind as a 1-based position, 0 when sep does not occur
rfind(s, sep) ==
    Bind({i \in 1..(Len(s) - Len(sep) + 1) : SubSeq(s, i, i + Len(sep) - 1) = sep},
         LAMBDA hits : IF hits = {} THEN 0 ELSE CHOOSE i \in hits : \A j \in hits : i >= j)

\* str.split(sep): cuts at every occurrence of sep, left to right
RECURSIVE split(_, _)
split(s, sep) ==
    Bind(find(s, sep), LAMBDA i :
        IF i = 0
        THEN <<s>>
        ELSE Bind(SubSeq(s, i + Len(sep), Len(s)), LAMBDA rest :
                 <<SubSeq(s, 1, i - 1)>> \o split(rest, sep)))

\* str.rsplit(sep, 1): cuts at the last occurrence of sep only
rsplit(s, sep) ==
    Bind(rfind(s, sep), LAMBDA i :
        IF i = 0
        THEN <<s>>
        ELSE <<SubSeq(s, 1, i - 1), SubSeq(s, i + Len(sep), Len(s))>>)

\* str.translate with the table str.maketrans(x, y)
translate(s, x, y) == [i \in 1..Len(s) |-> IF s[i] = x THEN y ELSE s[i]]

\* the order of str under <, by code point, a proper prefix first
RECURSIVE StrLess(_, _)
StrLess(a, b) ==
    IF b = <<>> THEN FALSE
    ELSE IF a = <<>> THEN TRUE
    ELSE IF a[1] # b[1] THEN Ord(a[1]) < Ord(b[1])
    ELSE StrLess(Tail(a), Tail(b))

\* sorted(set(xs)) for an iterable of str
RECURSIVE SortedSet(_)
SortedSet(S) ==
    IF S = {} THEN <<>>
    ELSE Bind(CHOOSE a \in S : \A b \in S \ {a} : StrLess(a, b), LAMBDA least :
             Bind(S \ {least}, LAMBDA rest : <<least>> \o SortedSet(rest)))

sorted_set(xs) == Bind({xs[i] : i \in 1..Len(xs)}, LAMBDA S : SortedSet(S))

(***************************************************************************)
(* The misspelling table.                                                  *)
(***************************************************************************)
alt_chars == <<<<"'", RightQuote>>>>

Misspelling(candidates, fix, reason) ==
    [candidates |-> candidates, fix |-> fix, reason |-> reason]

EmptyTable == [k \in {} |-> Misspelling(<<>>, TRUE, <<>>)]

\* SetItem that keeps the value a key already has, as dict.setdefault would
SetItemKeepFirst(table, key, value) ==
    [k \in (DOMAIN table) \cup {key} |-> IF k \in DOMAIN table THEN table[k] ELSE value]

\* misspellings[key] = value
SetItem(table, key, value) ==
    [k \in (DOMAIN table) \cup {key} |-> IF k = key THEN value ELSE table[k]]

\* ParseData with the reason cut at the first comma instead of the last
ParseDataFirstComma(data) ==
    LET stripped == strip(data)
        at == find(stripped, <<",">>)
        body == IF at # 0 THEN SubSeq(stripped, 1, at - 1) ELSE stripped
        reason == IF at # 0 THEN lstrip(SubSeq(stripped, at + 1, Len(stripped))) ELSE <<>>
        segments == split(body, <<",">>)
    IN  Misspelling([i \in 1..Len(segments) |-> strip(segments[i])], at = 0, reason)

\* the Misspelling _add_misspelling builds from a data field
ParseData(data) ==
    Bind(strip(data), LAMBDA stripped :
        Bind(rsplit(stripped, <<",">>), LAMBDA cut :
            LET comma == "," \in Chars(stripped)
                body == IF comma THEN cut[1] ELSE stripped
                reason == IF comma THEN lstrip(cut[2]) ELSE <<>>
            IN  Bind(split(body, <<",">>), LAMBDA segments :
                    Misspelling([i \in 1..Len(segments) |-> strip(segments[i])],
                                ~comma, reason))))

_add_misspelling(key, data, table) == SetItem(table, key, ParseData(data))

\* the alternate-key loop of load_dictionary_from_file, from pair i of alt_chars on
RECURSIVE AddAlternates(_, _, _, _, _)
AddAlternates(i, key, data, ignore_words, table) ==
    IF i > Len(alt_chars) THEN table
    ELSE LET x == alt_chars[i][1]
             y == alt_chars[i][2]
         IN  Bind(translate(key, x, y), LAMBDA alt_key :
             Bind(translate(data, x, y), LAMBDA alt_data :
             Bind(IF x \in Chars(key) /\ alt_key \notin ignore_words
                  THEN _add_misspelling(alt_key, alt_data, table)
                  ELSE table,
                  LAMBDA next : AddAlternates(i + 1, key, data, ignore_words, next))))

\* LoadLine with the line cut at the first "->" only, as line.split("->", 1) would
LoadLineFirstArrow(line, ignore_words, table) ==
    LET at == find(line, <<"-", ">">>)
    IN  IF at = 0
        THEN [table |-> table, err |-> "ValueError"]
        ELSE LET key == lower(SubSeq(line, 1, at - 1))
                 data == lower(SubSeq(line, at + 2, Len(line)))
                 own == IF key \notin ignore_words
                        THEN _add_misspelling(key, data, table)
                        ELSE table
             IN  [table |-> AddAlternates(1, key, data, ignore_words, own),
                  err |-> "none"]

\* one iteration of `for line in f`; err is "ValueError" when the unpacking of
\* line.split("->") fails, and the table is then as the earlier lines left it
LoadLine(line, ignore_words, table) ==
    Bind(split(line, <<"-", ">">>), LAMBDA parts :
        IF Len(parts) # 2
        THEN [table |-> table, err |-> "ValueError"]
        ELSE Bind(lower(parts[1]), LAMBDA key :
             Bind(lower(parts[2]), LAMBDA data :
             Bind(IF key \notin ignore_words
                  THEN _add_misspelling(key, data, table)
                  ELSE table,
                  LAMBDA own : [table |-> AddAlternates(1, key, data, ignore_words, own),
                                err |-> "none"]))))

\* the lines `for line in f` delivers for a file opened in text mode: the text is
\* cut after every line terminator, and "\r\n" and "\r" are delivered as "\n"
RECURSIVE readlines(_)
readlines(text) ==
    IF text = <<>> THEN <<>>
    ELSE Bind({i \in 1..Len(text) : text[i] \in {"\n", "\r"}}, LAMBDA ends :
             IF ends = {} THEN <<text>>
             ELSE Bind(CHOOSE e \in ends : \A j \in ends : e <= j, LAMBDA e :
                  Bind(IF text[e] = "\r" /\ e < Len(text) /\ text[e + 1] = "\n"
                       THEN e + 1 ELSE e,
                       LAMBDA stop :
                           <<Append(SubSeq(text, 1, e - 1), "\n")>>
                           \o readlines(SubSeq(text, stop + 1, Len(text))))))

RECURSIVE LoadLines(_, _, _, _)
LoadLines(lines, i, ignore_words, table) ==
    IF i > Len(lines) THEN [table |-> table, err |-> "none"]
    ELSE Bind(LoadLine(lines[i], ignore_words, table), LAMBDA r :
             IF r.err # "none" THEN r
             ELSE LoadLines(lines, i + 1, ignore_words, r.table))

\* Spellchecker.load_dictionary_from_file on a file with the given text
load_dictionary_from_file(text, ignore_words, table) ==
    Bind(readlines(text), LAMBDA lines : LoadLines(lines, 1, ignore_words, table))

(***************************************************************************)
(* The registry of built-in dictionaries and their files.                  *)
(***************************************************************************)
Name_clear == <<"c", "l", "e", "a", "r">>

Name_rare == <<"r", "a", "r", "e">>

Name_informal == <<"i", "n", "f", "o", "r", "m", "a", "l">>

Name_usage == <<"u", "s", "a", "g", "e">>

Name_code == <<"c", "o", "d", "e">>

Name_names == <<"n", "a", "m", "e", "s">>

Name_en_GB_to_en_US == <<"e", "n", "-", "G", "B", "_", "t", "o", "_", "e", "n", "-", "U", "S">>

\* a name the registry does not hold
Name_nope == <<"n", "o", "p", "e">>

\* _builtin_dictionaries: builtin[0] and builtin[2] of every entry, in order
_builtin_dictionaries ==
    <<[name |-> Name_clear, suffix |-> ""],
      [name |-> Name_rare, suffix |-> "_rare"],
      [name |-> Name_informal, suffix |-> "_informal"],
      [name |-> Name_usage, suffix |-> "_usage"],
      [name |-> Name_code, suffix |-> "_code"],
      [name |-> Name_names, suffix |-> "_names"],
      [name |-> Name_en_GB_to_en_US, suffix |-> "_en-GB_to_en-US"]>>

\* _builtin_default and _builtin_default_as_tuple
_builtin_default == <<"c", "l", "e", "a", "r", ",", "r", "a", "r", "e">>

_builtin_default_as_tuple == split(_builtin_default, <<",">>)

\* The text of the files data/dictionary<suffix>.txt.  The class docstring shows
\* what the default dictionaries, clear and rare, give for touple and tpyo: the
\* candidates tuple, couple, topple, toupee without fix, and typo with fix.  Both
\* directories hold these two entries in dictionary.txt.  In Plain no two files
\* have a key in common; in Overlap they disagree on abc, nabc, tpyo and don't.
Plain_clear ==
    <<"t", "o", "u", "p", "l", "e", "-", ">", "t", "u", "p", "l", "e", ",", " ", "c", "o",
      "u", "p", "l", "e", ",", " ", "t", "o", "p", "p", "l", "e", ",", " ", "t", "o", "u",
      "p", "e", "e", ",", "\n", "t", "p", "y", "o", "-", ">", "t", "y", "p", "o", "\n">>

Plain_rare ==
    <<"a", "b", "c", "-", ">", "y", ",", " ", "z", ",", "\n">>

Plain_informal ==
    <<"d", "o", "n", "'", "t", "-", ">", "d", "o", " ", "n", "o", "t", "\n">>

Plain_usage ==
    <<"a", "l", "o", "t", "-", ">", "a", " ", "l", "o", "t", "\n">>

Plain_code ==
    <<"n", "a", "b", "c", "-", ">", "x", ",", " ", "c", "\n">>

Plain_names ==
    <<"a", "b", "d", "-", ">", "a", "b", "e", "\n">>

Plain_en_GB_to_en_US ==
    <<"c", "o", "l", "o", "u", "r", "-", ">", "c", "o", "l", "o", "r", "\n">>

Overlap_clear ==
    <<"t", "o", "u", "p", "l", "e", "-", ">", "t", "u", "p", "l", "e", ",", " ", "c", "o",
      "u", "p", "l", "e", ",", " ", "t", "o", "p", "p", "l", "e", ",", " ", "t", "o", "u",
      "p", "e", "e", ",", "\n", "t", "p", "y", "o", "-", ">", "t", "y", "p", "o", "\n",
      "a", "b", "c", "-", ">", "x", "\n", "d", "o", "n", "'", "t", "-", ">", "d", "o", " ",
      "n", "o", "t", "\n">>

Overlap_rare ==
    <<"a", "b", "c", "-", ">", "y", ",", " ", "z", ",", "\n">>

Overlap_informal ==
    <<"d", "o", "n", "'", "t", "-", ">", "d", "o", " ", "n", "o", "t", ",", " ", "i", "n",
      "f", "o", "r", "m", "a", "l", "\n">>

Overlap_usage ==
    <<"a", "b", "c", "-", ">", "u", "s", "a", "g", "e", "\n">>

Overlap_code ==
    <<"n", "a", "b", "c", "-", ">", "x", ",", " ", "c", "\n", "a", "b", "c", "-", ">", "c",
      "\n", "t", "p", "y", "o", "-", ">", "q", "\n">>

Overlap_names ==
    <<"n", "a", "b", "c", "-", ">", "n", "a", "m", "e", "s", "\n">>

Overlap_en_GB_to_en_US ==
    <<"c", "o", "l", "o", "u", "r", "-", ">", "c", "o", "l", "o", "r", "\n">>

Plain ==
    [suffix \in {_builtin_dictionaries[i].suffix : i \in 1..Len(_builtin_dictionaries)} |->
        CASE suffix = "" -> Plain_clear
          [] suffix = "_rare" -> Plain_rare
          [] suffix = "_informal" -> Plain_informal
          [] suffix = "_usage" -> Plain_usage
          [] suffix = "_code" -> Plain_code
          [] suffix = "_names" -> Plain_names
          [] suffix = "_en-GB_to_en-US" -> Plain_en_GB_to_en_US]

Overlap ==
    [suffix \in {_builtin_dictionaries[i].suffix : i \in 1..Len(_builtin_dictionaries)} |->
        CASE suffix = "" -> Overlap_clear
          [] suffix = "_rare" -> Overlap_rare
          [] suffix = "_informal" -> Overlap_informal
          [] suffix = "_usage" -> Overlap_usage
          [] suffix = "_code" -> Overlap_code
          [] suffix = "_names" -> Overlap_names
          [] suffix = "_en-GB_to_en-US" -> Overlap_en_GB_to_en_US]

\* the directories the engine may find under _data_root
DataDirs == {Plain, Overlap}

\* the text of os.path.join(_data_root, f"dictionary{suffix}.txt")
DataFile(suffix) == data_root[suffix]

\* Spellchecker._load_builtin_dictionary, looking from entry i of the registry on
RECURSIVE LookupAndLoad(_, _, _, _)
LookupAndLoad(i, name, ignore_words, table) ==
    IF i > Len(_builtin_dictionaries)
    THEN [table |-> table, err |-> "UnknownBuiltinDictionaryError"]
    ELSE IF _builtin_dictionaries[i].name = name
    THEN load_dictionary_from_file(DataFile(_builtin_dictionaries[i].suffix),
                                   ignore_words, table)
    ELSE LookupAndLoad(i + 1, name, ignore_words, table)

_load_builtin_dictionary(name, ignore_words, table) ==
    LookupAndLoad(1, name, ignore_words, table)

\* the loop of load_builtin_dictionaries over the names in `order`, from position
\* i on; `loaded` lists the names whose file has been merged
RECURSIVE LoadEach(_, _, _, _, _)
LoadEach(order, i, ignore_words, table, loaded) ==
    IF i > Len(order) THEN [table |-> table, err |-> "none", loaded |-> loaded]
    ELSE Bind(_load_builtin_dictionary(order[i], ignore_words, table), LAMBDA r :
             IF r.err # "none"
             THEN [table |-> r.table, err |-> r.err, loaded |-> loaded]
             ELSE Bind(Append(loaded, order[i]), LAMBDA done :
                      LoadEach(order, i + 1, ignore_words, r.table, done)))

\* LoadOrder without sorted(set(...)): the names as the caller gave them
LoadOrderAsGiven(builtin_dictionaries) == builtin_dictionaries

\* the order in which load_builtin_dictionaries takes the names
LoadOrder(builtin_dictionaries) == sorted_set(builtin_dictionaries)

\* load_builtin_dictionaries without its check of the flag
load_builtin_dictionaries_unguarded(builtin_dictionaries, ignore_words, table, loaded_flag) ==
    LET r == LoadEach(LoadOrder(builtin_dictionaries), 1, ignore_words, table, <<>>)
    IN  [table |-> r.table, builtin_loaded |-> (r.err = "none"),
         err |-> r.err, loaded |-> r.loaded]

\* Spellchecker.load_builtin_dictionaries on an engine with the given table and flag
load_builtin_dictionaries(builtin_dictionaries, ignore_words, table, loaded_flag) ==
    IF loaded_flag
    THEN [table |-> table, builtin_loaded |-> loaded_flag,
          err |-> "BuiltinDictionariesAlreadyLoadedError", loaded |-> <<>>]
    ELSE Bind(LoadOrder(builtin_dictionaries), LAMBDA order :
         Bind(LoadEach(order, 1, ignore_words, table, <<>>), LAMBDA r :
             [table |-> r.table, builtin_loaded |-> (r.err = "none"),
              err |-> r.err, loaded |-> r.loaded]))

(***************************************************************************)
(* The line matcher.                                                       *)
(***************************************************************************)
\* A tokenizer of the kind the class docstring builds: re.compile(r"[^ ]+").finditer,
\* for any set of separator characters in place of the blank.  A token is its
\* group() and its 0-based start().
RECURSIVE finditer(_, _, _)
finditer(line, seps, i) ==
    IF i >= Len(line) THEN <<>>
    ELSE IF line[i + 1] \in seps THEN finditer(line, seps, i + 1)
    ELSE Bind({j \in (i + 1)..Len(line) : \A k \in (i + 1)..j : line[k] \notin seps},
              LAMBDA ends :
                  Bind(CHOOSE j \in ends : \A k \in ends : k <= j, LAMBDA e :
                      <<[word |-> SubSeq(line, i + 1, e), start |-> i]>>
                      \o finditer(line, seps, e)))

tokenizer(line, seps) == finditer(line, seps, 0)

EscapeLetters == {"a", "b", "f", "n", "r", "t", "v"}

\* IsEscape without the look-up of the rest of the word
IsEscapeNoTail(line, token, table) ==
    LET char_before_idx == token.start - 1
    IN  /\ char_before_idx >= 0
        /\ line[char_before_idx + 1] = "\\"
        /\ token.word # <<>>
        /\ token.word[1] \in EscapeLetters

\* the condition under which spellcheck_line takes a match for an escape sequence
IsEscape(line, token, table) ==
    LET char_before_idx == token.start - 1
    IN  /\ char_before_idx >= 0
        /\ line[char_before_idx + 1] = "\\"
        /\ token.word # <<>>
        /\ token.word[1] \in EscapeLetters
        /\ From(lower(token.word), 1) \notin DOMAIN table

\* CheckToken with ignore_words_cased matched without regard to case
CheckTokenCaseless(line, token, extra_words_to_ignore, table, ignored_cased) ==
    LET word == token.word
        lword == lower(word)
    IN  IF lword \in {lower(w) : w \in ignored_cased} THEN <<>>
        ELSE IF lword \in DOMAIN table /\ lword \notin extra_words_to_ignore
        THEN IF IsEscape(line, token, table) THEN <<>>
             ELSE <<[word |-> word, lword |-> lword,
                     misspelling |-> table[lword], token |-> token]>>
        ELSE <<>>

\* the body of the loop of spellcheck_line for one token: the issues it yields
CheckToken(line, token, extra_words_to_ignore, table, ignored_cased) ==
    LET word == token.word
    IN  IF word \in ignored_cased THEN <<>>
        ELSE Bind(lower(word), LAMBDA lword :
                 IF lword \in DOMAIN table /\ lword \notin extra_words_to_ignore
                 THEN IF IsEscape(line, token, table) THEN <<>>
                      ELSE <<[word |-> word, lword |-> lword,
                              misspelling |-> table[lword], token |-> token]>>
                 ELSE <<>>)

\* spellcheck_line with its loop left at the first token whose word is no key
RECURSIVE spellcheck_line_until_unknown(_, _, _, _, _, _)
spellcheck_line_until_unknown(line, tokens, i, extra_words_to_ignore, table, ignored_cased) ==
    IF i > Len(tokens) \/ lower(tokens[i].word) \notin DOMAIN table
    THEN [pos |-> Len(tokens), out |-> <<>>, done |-> TRUE]
    ELSE Bind(CheckToken(line, tokens[i], extra_words_to_ignore, table, ignored_cased),
              LAMBDA out :
                  IF out # <<>>
                  THEN [pos |-> i, out |-> out, done |-> FALSE]
                  ELSE spellcheck_line_until_unknown(line, tokens, i + 1,
                                                     extra_words_to_ignore, table,
                                                     ignored_cased))

\* The body of the generator spellcheck_line, run from token i (the tokens before
\* it are consumed) up to its next yield or to its end.  pos is the number of
\* tokens consumed, out the issue yielded, done tells that the generator has ended.
RECURSIVE spellcheck_line(_, _, _, _, _, _)
spellcheck_line(line, tokens, i, extra_words_to_ignore, table, ignored_cased) ==
    IF i > Len(tokens)
    THEN [pos |-> Len(tokens), out |-> <<>>, done |-> TRUE]
    ELSE Bind(CheckToken(line, tokens[i], extra_words_to_ignore, table, ignored_cased),
              LAMBDA out :
                  IF out # <<>>
                  THEN [pos |-> i, out |-> out, done |-> FALSE]
                  ELSE spellcheck_line(line, tokens, i + 1, extra_words_to_ignore, table,
                                       ignored_cased))

(***************************************************************************)
(* The inputs of the calls.                                                *)
(***************************************************************************)
Word_abc == <<"a", "b", "c">>

Word_nabc == <<"n", "a", "b", "c">>

Word_Abc == <<"A", "b", "c">>

Word_tpyo == <<"t", "p", "y", "o">>

Word_touple == <<"t", "o", "u", "p", "l", "e">>

Word_dont == <<"d", "o", "n", "'", "t">>

Word_dont_alt == <<"d", "o", "n", RightQuote, "t">>

\* The text of custom dictionary files.  FileSpecExample holds the two entries as
\* the end-to-end example writes them; FileQuote has no final line terminator and
\* FileRepeat has the line terminator "\r\n".
FileSpecExample ==
    <<"t", "o", "u", "p", "l", "e", "-", ">", "t", "u", "p", "l", "e", ",", "c", "o", "u",
      "p", "l", "e", ",", "t", "o", "p", "p", "l", "e", ",", "t", "o", "u", "p", "e", "e",
      "\n", "t", "p", "y", "o", "-", ">", "t", "y", "p", "o", "\n">>

FileQuote ==
    <<"D", "o", "n", "'", "t", "-", ">", "d", "o", " ", "n", "o", "t", ",", " ", "c", "o",
      "n", "t", "r", "a", "c", "t", "i", "o", "n">>

FileQuoteFirst ==
    <<"d", "o", "n", "'", "t", "-", ">", "d", "o", " ", "n", "o", "t", "\n", "d", "o", "n",
      RightQuote, "t", "-", ">", "d", "o", "n", "t", "\n">>

FileQuoteLast ==
    <<"d", "o", "n", RightQuote, "t", "-", ">", "d", "o", "n", "t", "\n", "d", "o", "n",
      "'", "t", "-", ">", "d", "o", " ", "n", "o", "t", "\n">>

FileRepeat ==
    <<"a", "b", "c", "-", ">", "x", "\r", "\n", "N", "a", "b", "c", "-", ">", "y", ",",
      " ", "z", ",", "\r", "\n", "A", "B", "C", "-", ">", "z", "\r", "\n">>

FileNoArrow ==
    <<"n", "a", "b", "c", "-", ">", "x", "\n", "a", "b", "c", "\n", "t", "p", "y", "o",
      "-", ">", "q", "\n">>

\* the files loaded while an engine is loaded
Files == {FileQuote, FileQuoteFirst, FileQuoteLast, FileRepeat, FileNoArrow}

\* lines to check
LineExample ==
    <<"A", " ", "t", "o", "u", "p", "l", "e", " ", "t", "p", "y", "o", " ", "b", "u", "t", " ", "a", "l", "s", "o", " ", "c", "o", "r", "r", "e", "c", "t", " ", "w", "o", "r", "d", "s", " ", "a", "p", "p", "e", "a", "r">>

LineEscape ==
    <<"x", " ", "=", " ", "'", "\\", "n", "a", "b", "c", "'">>

LineMixed ==
    <<"n", "a", "b", "c", " ", "\\", "N", "a", "b", "c", " ", "\\", "a", "b", "c", " ", "\\", "n", "a", "b", "c", " ", "A", "b", "c", " ", "a", "b", "c">>

LineQuote ==
    <<"\\", "t", "p", "y", "o", " ", "\\", "d", "o", "n", "'", "t", " ", "d", "o", "n", RightQuote, "t">>

Lines == {LineExample, LineEscape, LineMixed, LineQuote}

\* the files loaded while lines are checked
ScanFiles == {FileSpecExample, FileRepeat, FileNoArrow, FileQuoteFirst}

SeparatorSets == {{" "}, {" ", "\\", "=", "'"}}

IgnoreSets == {{}, {Word_dont}, {Word_dont_alt, Word_abc}}

ExtraSets == {{}, {Word_abc}, {Word_tpyo, Word_nabc}}

CasedSets == {{}, {Word_Abc}, {Word_abc, Word_nabc}}

\* the builtin_dictionaries given to load_builtin_dictionaries
NameArgs ==
    {<<>>, <<Name_clear>>, <<Name_clear, Name_rare>>, <<Name_rare, Name_clear>>,
     <<Name_rare, Name_code, Name_rare>>, <<Name_code, Name_clear>>,
     <<Name_clear, Name_nope>>, <<Name_nope, Name_rare>>}

BuiltinIgnoreSets == {{}, {Word_dont}}

\* the builtin_dictionaries the constructor is given; None is the empty tuple
ConstructorArgs == {<<>>, _builtin_default_as_tuple, <<Name_code>>}

ParseAlphabet == {"a", "A", ",", " ", "-", ">"}

ParseInputs == UNION {[1..n -> ParseAlphabet] : n \in 0..MaxLen}

(***************************************************************************)
(* The engine: one action per call on a Spellchecker.                      *)
(***************************************************************************)
NoCall ==
    [op |-> "__init__", lines |-> <<>>, names |-> <<>>, ignore_words |-> {},
     line |-> <<>>, err |-> "none", loaded |-> <<>>]

Snapshot ==
    [misspellings |-> misspellings, builtin_loaded |-> builtin_loaded,
     ignore_words_cased |-> ignore_words_cased, merged |-> merged,
     completed |-> completed]

\* No generator.  A generator is "created" by the call of spellcheck_line,
\* "suspended" at a yield and "done" at its end.  tokens and cased are the locals
\* the body sets when it starts to run; pos is the number of tokens it has
\* consumed.  from, yielded and tables record its last resumption: the value pos
\* had, whether it ended in a yield, and the tables the body has run on.
NoGen ==
    [state |-> "none", line |-> <<>>, seps |-> {}, extra |-> {}, tokens |-> <<>>,
     cased |-> {}, pos |-> 0, from |-> 0, yielded |-> FALSE, tables |-> {}]

\* a generator that has ended is dropped when the next call is made
Kept == IF gen.state = "done" THEN NoGen ELSE gen

KeptIssues == IF gen.state = "done" THEN <<>> ELSE issues

\* Spellchecker.__init__: a constructor that raises leaves no engine behind
Init ==
    \E dir \in DataDirs, builtin_dictionaries \in ConstructorArgs :
        /\ data_root = dir
        /\ \E r \in {IF builtin_dictionaries # <<>>
                      THEN load_builtin_dictionaries(builtin_dictionaries, {}, EmptyTable,
                                                     FALSE)
                      ELSE [table |-> EmptyTable, builtin_loaded |-> FALSE,
                            err |-> "none", loaded |-> <<>>]} :
               /\ r.err = "none"
               /\ misspellings = r.table
               /\ builtin_loaded = r.builtin_loaded
               /\ ignore_words_cased = {}
               /\ call = [NoCall EXCEPT !.names = builtin_dictionaries,
                                        !.loaded = r.loaded]
               /\ pre = [misspellings |-> EmptyTable, builtin_loaded |-> FALSE,
                         ignore_words_cased |-> {}, merged |-> {}, completed |-> 0]
               /\ merged = Chars(r.loaded)
               /\ completed = IF builtin_dictionaries # <<>> THEN 1 ELSE 0
        /\ gen = NoGen
        /\ issues = <<>>
        /\ nops = 0

LoadDictionaryFromFile ==
    \E text \in Files, ignore_words \in IgnoreSets :
        \E r \in {load_dictionary_from_file(text, ignore_words, misspellings)} :
            /\ nops < MaxOps
            /\ misspellings' = r.table
            /\ call' = [NoCall EXCEPT !.op = "load_dictionary_from_file",
                                      !.lines = readlines(text),
                                      !.ignore_words = ignore_words, !.err = r.err]
            /\ pre' = Snapshot
            /\ nops' = nops + 1
            /\ UNCHANGED <<builtin_loaded, ignore_words_cased, data_root, gen, issues,
                           merged, completed>>

LoadBuiltinDictionaries ==
    \E names \in NameArgs, ignore_words \in BuiltinIgnoreSets :
        \E r \in {load_builtin_dictionaries(names, ignore_words, misspellings,
                                             builtin_loaded)} :
            /\ nops < MaxOps
            /\ misspellings' = r.table
            /\ builtin_loaded' = r.builtin_loaded
            /\ call' = [NoCall EXCEPT !.op = "load_builtin_dictionaries", !.names = names,
                                      !.ignore_words = ignore_words, !.err = r.err,
                                      !.loaded = r.loaded]
            /\ pre' = Snapshot
            /\ merged' = merged \cup Chars(r.loaded)
            /\ completed' = IF r.err = "none" THEN completed + 1 ELSE completed
            /\ nops' = nops + 1
            /\ UNCHANGED <<ignore_words_cased, data_root, gen, issues>>

\* the loading of an engine
Next ==
    \/ LoadDictionaryFromFile
    \/ LoadBuiltinDictionaries

Spec == Init /\ [][Next]_vars

(***************************************************************************)
(* The use of an engine: dictionaries loaded with ignore_words left at its *)
(* default, ignore_words_cased assigned, lines checked.  The calls are     *)
(* made in any order, between two resumptions of a generator too.          *)
(***************************************************************************)
\* load_dictionary_from_file with ignore_words left at its default
LoadDictionaryFromFileDefault ==
    \E text \in ScanFiles :
        \E r \in {load_dictionary_from_file(text, {}, misspellings)} :
            /\ nops < MaxCalls
            /\ misspellings' = r.table
            /\ call' = [NoCall EXCEPT !.op = "load_dictionary_from_file",
                                      !.lines = readlines(text), !.err = r.err]
            /\ pre' = Snapshot
            /\ nops' = nops + 1
            /\ gen' = Kept
            /\ issues' = KeptIssues
            /\ UNCHANGED <<builtin_loaded, ignore_words_cased, data_root, merged,
                           completed>>

\* an assignment to the public attribute ignore_words_cased
SetIgnoreWordsCased ==
    \E words \in CasedSets :
        /\ nops < MaxCalls
        /\ words # ignore_words_cased
        /\ ignore_words_cased' = words
        /\ call' = [NoCall EXCEPT !.op = "ignore_words_cased"]
        /\ pre' = Snapshot
        /\ nops' = nops + 1
        /\ gen' = Kept
        /\ issues' = KeptIssues
        /\ UNCHANGED <<misspellings, builtin_loaded, data_root, merged, completed>>

\* The call of spellcheck_line: it returns a generator and runs none of the body.
\* The generator an earlier call returned is dropped.
SpellcheckLine ==
    \E line \in Lines, seps \in SeparatorSets, extra \in ExtraSets :
        /\ nops < MaxCalls
        /\ gen' = [NoGen EXCEPT !.state = "created", !.line = line, !.seps = seps,
                                !.extra = extra]
        /\ issues' = <<>>
        /\ call' = [NoCall EXCEPT !.op = "spellcheck_line", !.line = line]
        /\ pre' = Snapshot
        /\ nops' = nops + 1
        /\ UNCHANGED <<misspellings, builtin_loaded, ignore_words_cased, data_root,
                       merged, completed>>

\* next() on the generator.  Resumed for the first time the body reads
\* self._misspellings and self.ignore_words_cased into its locals and calls the
\* tokenizer; the table is the dict of the engine itself, which later loads
\* change, while a later assignment to ignore_words_cased is not seen.  The body
\* then runs to its next yield, or to its end.
ResumeGenerator ==
    /\ gen.state \in {"created", "suspended"}
    /\ \E cased \in {IF gen.state = "created" THEN ignore_words_cased ELSE gen.cased},
          tokens \in {IF gen.state = "created" THEN tokenizer(gen.line, gen.seps)
                      ELSE gen.tokens} :
           \E r \in {spellcheck_line(gen.line, tokens, gen.pos + 1, gen.extra,
                                     misspellings, cased)} :
               /\ gen' = [gen EXCEPT !.state = IF r.done THEN "done" ELSE "suspended",
                                     !.tokens = tokens, !.cased = cased,
                                     !.pos = r.pos, !.from = gen.pos,
                                     !.yielded = ~r.done,
                                     !.tables = @ \cup {misspellings}]
               /\ issues' = issues \o r.out
    /\ call' = [NoCall EXCEPT !.op = "next"]
    /\ pre' = Snapshot
    /\ UNCHANGED <<misspellings, builtin_loaded, ignore_words_cased, data_root, merged,
                   completed, nops>>

NextScan ==
    \/ LoadDictionaryFromFileDefault
    \/ SetIgnoreWordsCased
    \/ SpellcheckLine
    \/ ResumeGenerator

SpecScan == Init /\ [][NextScan]_vars

(***************************************************************************)
(* The parser on its own: one string, given to _add_misspelling as a data  *)
(* field or to the loader as the text of a file.                           *)
(***************************************************************************)
InitParse ==
    \E s \in ParseInputs :
        /\ misspellings = EmptyTable
        /\ builtin_loaded = FALSE
        /\ ignore_words_cased = {}
        /\ data_root = Plain
        /\ gen = NoGen
        /\ issues = <<>>
        /\ call = [NoCall EXCEPT !.op = "input", !.line = s]
        /\ pre = [misspellings |-> EmptyTable, builtin_loaded |-> FALSE,
                  ignore_words_cased |-> {}, merged |-> {}, completed |-> 0]
        /\ merged = {}
        /\ completed = 0
        /\ nops = 0

AddMisspelling ==
    /\ call.op = "input"
    /\ misspellings' = _add_misspelling(Word_abc, call.line, misspellings)
    /\ call' = [call EXCEPT !.op = "_add_misspelling"]
    /\ pre' = Snapshot
    /\ UNCHANGED <<builtin_loaded, ignore_words_cased, data_root, gen, issues, merged,
                   completed, nops>>

\* load_dictionary_from_file on a file whose text is the string
LoadOneLine ==
    /\ call.op = "input"
    /\ \E r \in {load_dictionary_from_file(call.line, {}, misspellings)} :
           /\ misspellings' = r.table
           /\ call' = [call EXCEPT !.op = "load_dictionary_from_file",
                                   !.lines = readlines(call.line), !.err = r.err]
    /\ pre' = Snapshot
    /\ UNCHANGED <<builtin_loaded, ignore_words_cased, data_root, gen, issues, merged,
                   completed, nops>>

NextParse == AddMisspelling \/ LoadOneLine

SpecParse == InitParse /\ [][NextParse]_vars

(***************************************************************************)
(* Notions the properties are stated with.                                 *)
(***************************************************************************)
Least(S) == CHOOSE i \in S : \A j \in S : i <= j

Greatest(S) == CHOOSE i \in S : \A j \in S : i >= j

Inked(s) == {i \in 1..Len(s) : s[i] \notin Whitespace}

\* s without its leading and trailing whitespace
TrimOf(s) == IF Inked(s) = {} THEN <<>> ELSE SubSeq(s, Least(Inked(s)), Greatest(Inked(s)))

\* s without its leading whitespace
LeftTrimOf(s) == IF Inked(s) = {} THEN <<>> ELSE SubSeq(s, Least(Inked(s)), Len(s))

Commas(s) == {i \in 1..Len(s) : s[i] = ","}

\* the position of the k-th comma of s; 0 for k = 0, Len(s) + 1 past the last one
CommaAt(s, k) ==
    IF k = 0 THEN 0
    ELSE IF k > Cardinality(Commas(s)) THEN Len(s) + 1
    ELSE CHOOSE p \in Commas(s) : Cardinality({q \in Commas(s) : q < p}) = k - 1

\* the k-th comma-separated segment of s
SegmentOf(s, k) == SubSeq(s, CommaAt(s, k - 1) + 1, CommaAt(s, k) - 1)

\* the positions at which "->" occurs in a line
Arrows(line) == {i \in 1..(Len(line) - 1) : line[i] = "-" /\ line[i + 1] = ">"}

\* the key and the data field of a line with one "->", as the loader takes them
KeyOfLine(line) == lower(SubSeq(line, 1, Least(Arrows(line)) - 1))

DataOfLine(line) == lower(SubSeq(line, Least(Arrows(line)) + 2, Len(line)))

\* s with every apostrophe replaced by U+2019
Alternate(s) == [i \in 1..Len(s) |-> IF s[i] = "'" THEN RightQuote ELSE s[i]]

HasApostrophe(s) == \E i \in 1..Len(s) : s[i] = "'"

\* the number of leading lines of a file that a load processes
Processed(lines) ==
    Greatest({n \in 0..Len(lines) : \A i \in 1..n : Cardinality(Arrows(lines[i])) = 1})

\* the writes one line makes, in order: its own key, then its alternate key
LineWrites(line, ignore_words) ==
    LET key == KeyOfLine(line)
        data == DataOfLine(line)
    IN  (IF key \notin ignore_words THEN <<[key |-> key, data |-> data]>> ELSE <<>>)
        \o (IF HasApostrophe(key) /\ Alternate(key) \notin ignore_words
            THEN <<[key |-> Alternate(key), data |-> Alternate(data)]>>
            ELSE <<>>)

\* the writes of the first n lines of a file, in load order
RECURSIVE FileWrites(_, _, _)
FileWrites(lines, n, ignore_words) ==
    IF n = 0 THEN <<>>
    ELSE FileWrites(lines, n - 1, ignore_words) \o LineWrites(lines[n], ignore_words)

\* the lines of the file of a built-in dictionary
FileOfBuiltin(name) ==
    LET i == CHOOSE j \in 1..Len(_builtin_dictionaries) : _builtin_dictionaries[j].name = name
    IN  readlines(DataFile(_builtin_dictionaries[i].suffix))

KnownNames == {_builtin_dictionaries[i].name : i \in 1..Len(_builtin_dictionaries)}

\* the lines of the files of the first n of the given built-in dictionaries
RECURSIVE BuiltinLines(_, _)
BuiltinLines(names, n) ==
    IF n = 0 THEN <<>> ELSE BuiltinLines(names, n - 1) \o FileOfBuiltin(names[n])

IsLoad == call.op \in {"__init__", "load_dictionary_from_file", "load_builtin_dictionaries"}

\* the lines the last call processed, in load order
CallLines ==
    IF call.op = "load_dictionary_from_file"
    THEN SubSeq(call.lines, 1, Processed(call.lines))
    ELSE BuiltinLines(call.loaded, Len(call.loaded))

\* the writes the last call made, in load order
CallWrites == FileWrites(CallLines, Len(CallLines), call.ignore_words)

\* the entry of key k is as it was before the last call
Untouched(k) ==
    /\ k \in DOMAIN misspellings <=> k \in DOMAIN pre.misspellings
    /\ k \in DOMAIN misspellings => misspellings[k] = pre.misspellings[k]

(***************************************************************************)
(* C1.  Last write wins.  After every load (of a file, of the built-in     *)
(* dictionaries, by the constructor), the entry of every key is the record *)
(* of the last write the call made to that key, the write of an alternate  *)
(* key coming right after the write of its line; a key the call did not    *)
(* write keeps the record it had, and no key disappears.                   *)
(***************************************************************************)
C1_LastWriteWins ==
    IsLoad =>
        LET w == CallWrites
            at(k) == {i \in 1..Len(w) : w[i].key = k}
        IN  /\ DOMAIN misspellings
                   = (DOMAIN pre.misspellings) \cup {w[i].key : i \in 1..Len(w)}
            /\ \A k \in DOMAIN misspellings :
                   IF at(k) = {}
                   THEN misspellings[k] = pre.misspellings[k]
                   ELSE misspellings[k] = ParseData(w[Greatest(at(k))].data)

\* a file with two lines for the key abc has replaced the record that key had, and
\* the record is that of its last line
C1_Witness ==
    /\ call.op = "load_dictionary_from_file"
    /\ Cardinality({i \in 1..Len(CallWrites) : CallWrites[i].key = Word_abc}) = 2
    /\ Word_abc \in DOMAIN pre.misspellings
    /\ misspellings[Word_abc] # pre.misspellings[Word_abc]
    /\ misspellings[Word_abc] = [candidates |-> <<<<"z">>>>, fix |-> TRUE, reason |-> <<>>]

(***************************************************************************)
(* C2.  Seal guard.  A call of load_builtin_dictionaries made after a call *)
(* of it has returned (the constructor's included) raises                  *)
(* BuiltinDictionariesAlreadyLoadedError and leaves the table and the flag *)
(* as they were, whatever names and ignore_words it is given.              *)
(***************************************************************************)
C2_SealGuard ==
    (call.op = "load_builtin_dictionaries" /\ pre.completed >= 1) =>
        /\ call.err = "BuiltinDictionariesAlreadyLoadedError"
        /\ misspellings = pre.misspellings
        /\ builtin_loaded = pre.builtin_loaded
        /\ builtin_loaded

\* a second bulk load, given known names and an exclusion set, has been refused
C2_Witness ==
    /\ call.op = "load_builtin_dictionaries"
    /\ pre.completed >= 1
    /\ call.names = <<Name_code, Name_clear>>
    /\ call.ignore_words # {}
    /\ call.err = "BuiltinDictionariesAlreadyLoadedError"
    /\ Word_nabc \notin DOMAIN misspellings

\* a precedes b in the order of str: at the first position where they differ a
\* has the smaller code point, or a is a proper prefix of b
Precedes(a, b) ==
    \E i \in 1..(Len(b)) :
        /\ \A j \in 1..(i - 1) : j <= Len(a) /\ a[j] = b[j]
        /\ \/ i = Len(a) + 1
           \/ i <= Len(a) /\ Ord(a[i]) < Ord(b[i])

\* the sequences of at most MaxNames names that hold exactly the names of S
Arrangements(S) ==
    {s \in UNION {[1..n -> S] : n \in 0..MaxNames} : {s[i] : i \in 1..Len(s)} = S}

(***************************************************************************)
(* C3.  The order of a bulk load does not depend on the caller.  A bulk    *)
(* load of known names loads each distinct name once, in ascending order   *)
(* of str, and every sequence holding the same set of names, in any order  *)
(* and with any repetition, leads from the same table with the same        *)
(* ignore_words to the same final table.                                   *)
(***************************************************************************)
C3_OrderIndependent ==
    (/\ call.op \in {"__init__", "load_builtin_dictionaries"}
     /\ call.err # "BuiltinDictionariesAlreadyLoadedError"
     /\ Chars(call.names) \subseteq KnownNames) =>
        /\ call.err = "none"
        /\ Chars(call.loaded) = Chars(call.names)
        /\ \A i, j \in 1..Len(call.loaded) :
               i < j => Precedes(call.loaded[i], call.loaded[j])
        /\ \A other \in Arrangements(Chars(call.names)) :
               load_builtin_dictionaries(other, call.ignore_words,
                                         pre.misspellings, FALSE).table = misspellings

\* rare was named before clear, the two were loaded as clear, rare, and the
\* record of abc, on which they disagree, is that of rare
C3_Witness ==
    /\ call.op = "load_builtin_dictionaries"
    /\ call.names = <<Name_rare, Name_clear>>
    /\ call.loaded = <<Name_clear, Name_rare>>
    /\ misspellings[Word_abc]
           = [candidates |-> <<<<"y">>, <<"z">>>>, fix |-> FALSE, reason |-> <<>>]

\* the lines of the last call that bear on key k: k is their key or their alternate key
LinesOn(k) ==
    {i \in 1..Len(CallLines) :
        \/ KeyOfLine(CallLines[i]) = k
        \/ HasApostrophe(KeyOfLine(CallLines[i])) /\ Alternate(KeyOfLine(CallLines[i])) = k}

(***************************************************************************)
(* C4.  Excluding a key skips its line entirely: a line whose key is in    *)
(* ignore_words creates no entry for that key and none for its alternate   *)
(* key, also when the alternate key is not in ignore_words.  So a key on   *)
(* which only excluded lines bear has, after the load, the entry it had    *)
(* before.                                                                 *)
(***************************************************************************)
C4_ExcludedLineSkipped ==
    IsLoad =>
        \A k \in (DOMAIN misspellings) \cup (DOMAIN pre.misspellings) :
            (\A i \in LinesOn(k) : KeyOfLine(CallLines[i]) \in call.ignore_words)
                => Untouched(k)

(***************************************************************************)
(* C10.  The seal matches the provenance of the table: the flag is false   *)
(* only if no built-in dictionary has been merged into the table, and true *)
(* only after a bulk load has returned.                                    *)
(***************************************************************************)
C10_SealMatchesProvenance ==
    /\ ~builtin_loaded => merged = {}
    /\ builtin_loaded => completed >= 1

\* the table loaded from the two lines of the end-to-end example, and from nothing else
ExampleTable == load_dictionary_from_file(FileSpecExample, {}, EmptyTable).table

\* a generator made by spellcheck_line for the example line, cut at blanks, with
\* nothing ignored, has run to its end, and the table was the example table
\* whenever it ran
ExampleCall ==
    /\ gen.state = "done"
    /\ gen.line = LineExample
    /\ gen.tokens = tokenizer(LineExample, {" "})
    /\ gen.extra = {}
    /\ gen.cased = {}
    /\ gen.tables = {ExampleTable}

(***************************************************************************)
(* C6, as claimed.  With the table loaded from the lines                   *)
(* touple->tuple,couple,topple,toupee and tpyo->typo, the example line     *)
(* yields two issues, left to right: touple with the candidates tuple,     *)
(* couple, topple, toupee and fix = FALSE, then tpyo with the candidate    *)
(* typo and fix = TRUE.                                                    *)
(***************************************************************************)
C6_ExampleFourCandidates ==
    ExampleCall =>
        /\ Len(issues) = 2
        /\ issues[1].word = Word_touple
        /\ issues[1].misspelling.candidates =
               <<<<"t", "u", "p", "l", "e">>,
                 <<"c", "o", "u", "p", "l", "e">>,
                 <<"t", "o", "p", "p", "l", "e">>,
                 <<"t", "o", "u", "p", "e", "e">>>>
        /\ issues[1].misspelling.fix = FALSE
        /\ issues[2].word = Word_tpyo
        /\ issues[2].misspelling.candidates = <<<<"t", "y", "p", "o">>>>
        /\ issues[2].misspelling.fix = TRUE

(***************************************************************************)
(* C6, amended.  With that table the example line yields two issues, left  *)
(* to right: touple (at offset 2) with the candidates tuple, couple,       *)
(* topple, fix = FALSE and the reason toupee, the text after the last      *)
(* comma of its line; then tpyo (at offset 9) with the candidate typo,     *)
(* fix = TRUE and no reason.                                               *)
(***************************************************************************)
C6_ExampleLastIsReason ==
    ExampleCall =>
        /\ Len(issues) = 2
        /\ issues[1].word = Word_touple
        /\ issues[1].lword = Word_touple
        /\ issues[1].token.start = 2
        /\ issues[1].misspelling.candidates =
               <<<<"t", "u", "p", "l", "e">>,
                 <<"c", "o", "u", "p", "l", "e">>,
                 <<"t", "o", "p", "p", "l", "e">>>>
        /\ issues[1].misspelling.fix = FALSE
        /\ issues[1].misspelling.reason = <<"t", "o", "u", "p", "e", "e">>
        /\ issues[2].word = Word_tpyo
        /\ issues[2].lword = Word_tpyo
        /\ issues[2].token.start = 9
        /\ issues[2].misspelling.candidates = <<<<"t", "y", "p", "o">>>>
        /\ issues[2].misspelling.fix = TRUE
        /\ issues[2].misspelling.reason = <<>>

\* the example line has been checked to its end against the example table, and
\* issues came out
C6_Witness == ExampleCall /\ issues # <<>> /\ Len(gen.tokens) = 8 /\ gen.pos = 8

\* the tokens the body examined when the generator was last resumed
Examined == (gen.from + 1)..gen.pos

\* that resumption ended with the yield of an issue for token i
ReportedNow(i) ==
    /\ gen.yielded
    /\ i = gen.pos
    /\ issues # <<>>
    /\ issues[Len(issues)].token = gen.tokens[i]
    /\ issues[Len(issues)].word = gen.tokens[i].word

\* the generator has yielded an issue for the token
Reported(token) == \E j \in 1..Len(issues) : issues[j].token = token

\* the token stands right after a backslash, begins with the letter of an escape
\* sequence, and what follows that letter is no key of the table
LooksEscaped(token) ==
    /\ token.start > 0
    /\ gen.line[token.start] = "\\"
    /\ token.word[1] \in {"a", "b", "f", "n", "r", "t", "v"}
    /\ SubSeq(lower(token.word), 2, Len(token.word)) \notin DOMAIN misspellings

\* The lowercased word of the token is a key, and the token is not excluded.  The
\* table is the table of the engine when the token is examined; ignore_words_cased
\* is the set the engine had when the generator began to run.
Matches(token) ==
    /\ lower(token.word) \in DOMAIN misspellings
    /\ token.word \notin gen.cased
    /\ lower(token.word) \notin gen.extra

(***************************************************************************)
(* C7.  Escape suppression.  A token whose lowercased word is a key of the *)
(* table and which is not excluded is left out by spellcheck_line if and   *)
(* only if its start offset is above 0, the character before it is a       *)
(* backslash, its word as written begins with one of a, b, f, n, r, t, v   *)
(* and its lowercased word without the first character is no key; in every *)
(* other case it is reported.  The keys are those of the table at the time *)
(* the token is examined.                                                  *)
(***************************************************************************)
C7_EscapeSuppression ==
    call.op = "next" =>
        \A i \in Examined :
            Matches(gen.tokens[i]) =>
                (~ReportedNow(i) <=> LooksEscaped(gen.tokens[i]))

\* One line checked while the table changed.  With nabc the only key, nabc at
\* offset 0 was reported; abc then became a key; \Nabc was reported, \abc was left
\* out, and \nabc was reported because abc is a key.
C7_Witness ==
    /\ call.op = "next"
    /\ gen.line = LineMixed
    /\ gen.extra = {}
    /\ gen.cased = {}
    /\ Cardinality(gen.tables) = 2
    /\ \E t \in gen.tables : Word_nabc \in DOMAIN t /\ Word_abc \notin DOMAIN t
    /\ {Word_abc, Word_nabc} \subseteq DOMAIN misspellings
    /\ Reported([word |-> Word_nabc, start |-> 0])
    /\ Reported([word |-> <<"N", "a", "b", "c">>, start |-> 6])
    /\ [word |-> Word_abc, start |-> 12] \in Chars(gen.tokens)
    /\ gen.pos >= 4
    /\ ~Reported([word |-> Word_abc, start |-> 12])
    /\ Reported([word |-> Word_nabc, start |-> 17])

(***************************************************************************)
(* C8.  Exclusion precedence.  spellcheck_line yields no issue for a token *)
(* whose word as written is in ignore_words_cased, nor for one whose       *)
(* lowercased word is in extra_words_to_ignore, even when that word is a   *)
(* key; a token whose word differs from a member of ignore_words_cased     *)
(* only in case is not exempted by that set.  ignore_words_cased is the    *)
(* set the engine had when the generator began to run.                     *)
(***************************************************************************)
C8_ExclusionPrecedence ==
    call.op = "next" =>
        /\ \A j \in 1..Len(issues) :
               /\ issues[j].word \notin gen.cased
               /\ lower(issues[j].word) \notin gen.extra
        /\ \A i \in Examined :
               LET token == gen.tokens[i]
               IN  /\ (token.word \in gen.cased
                       \/ lower(token.word) \in gen.extra) => ~ReportedNow(i)
                   /\ (/\ token.word \notin gen.cased
                       /\ \E w \in gen.cased : lower(w) = lower(token.word)
                       /\ lower(token.word) \in DOMAIN misspellings
                       /\ lower(token.word) \notin gen.extra
                       /\ ~LooksEscaped(token)) => ReportedNow(i)

\* with Abc ignored by exact case and nabc ignored for the call, and abc and nabc
\* both keys, the line was checked to its end: Abc and nabc were left out, abc
\* was reported
C8_Witness ==
    /\ call.op = "next"
    /\ gen.state = "done"
    /\ gen.line = LineMixed
    /\ gen.cased = {Word_Abc}
    /\ gen.extra = {Word_tpyo, Word_nabc}
    /\ \A t \in gen.tables : {Word_abc, Word_nabc} \subseteq DOMAIN t
    /\ [word |-> Word_Abc, start |-> 22] \in Chars(gen.tokens)
    /\ ~Reported([word |-> Word_Abc, start |-> 22])
    /\ ~Reported([word |-> Word_nabc, start |-> 0])
    /\ Reported([word |-> Word_abc, start |-> 26])

(***************************************************************************)
(* C5.  Comma-reason rule.  For every data field given to                  *)
(* _add_misspelling, with d the data field trimmed: if d holds no comma,   *)
(* the record stored has the single candidate d, fix = TRUE and an empty   *)
(* reason; if d holds a comma, the record has fix = FALSE, its reason is   *)
(* the text after the last comma of d without its leading whitespace, and  *)
(* its candidates are the trimmed comma-separated segments of the text     *)
(* before that comma, in order.  The candidate sequence is never empty.    *)
(***************************************************************************)
C5_CommaReasonRule ==
    call.op = "_add_misspelling" =>
        LET d == TrimOf(call.line)
            rec == misspellings[Word_abc]
            last == Greatest(Commas(d))
            before == SubSeq(d, 1, last - 1)
            after == SubSeq(d, last + 1, Len(d))
        IN  /\ Len(rec.candidates) >= 1
            /\ Commas(d) = {} =>
                   rec = [candidates |-> <<d>>, fix |-> TRUE, reason |-> <<>>]
            /\ Commas(d) # {} =>
                   /\ rec.fix = FALSE
                   /\ rec.reason = LeftTrimOf(after)
                   /\ Len(rec.candidates) = Cardinality(Commas(before)) + 1
                   /\ \A k \in 1..Len(rec.candidates) :
                          rec.candidates[k] = TrimOf(SegmentOf(before, k))

\* a data field with two commas and a blank has been stored, such as ", ,a"
C5_Witness ==
    /\ call.op = "_add_misspelling"
    /\ Cardinality(Commas(call.line)) = 2
    /\ " " \in Chars(call.line)
    /\ misspellings[Word_abc].reason = <<"a">>
    /\ Len(misspellings[Word_abc].candidates) = 2

(***************************************************************************)
(* C9.  Record separator, as claimed: every line that holds at least one   *)
(* "->" is loaded without error, its key the text before the first "->"    *)
(* and its data all that follows that first occurrence, both in lower      *)
(* case; the load fails only for a line that holds no "->".                *)
(***************************************************************************)
C9_FirstArrowSplits ==
    (call.op = "load_dictionary_from_file" /\ call.lines # <<>>) =>
        LET line == call.lines[1]
            at == Least(Arrows(line))
        IN  IF Arrows(line) = {}
            THEN call.err = "ValueError"
            ELSE /\ call.err = "none"
                 /\ DOMAIN misspellings = {lower(SubSeq(line, 1, at - 1))}
                 /\ misspellings[lower(SubSeq(line, 1, at - 1))]
                        = ParseData(lower(SubSeq(line, at + 2, Len(line))))

(***************************************************************************)
(* C9, amended.  A line is loaded without error exactly when it holds one  *)
(* "->" and no more: its key is then the text before it and its data the   *)
(* text after it, both in lower case.  A line with no "->" or with more    *)
(* than one makes the load fail with ValueError, and that line changes     *)
(* nothing in the table.                                                   *)
(***************************************************************************)
C9_ExactlyOneArrow ==
    (call.op = "load_dictionary_from_file" /\ call.lines # <<>>) =>
        LET line == call.lines[1]
            at == Least(Arrows(line))
        IN  IF Cardinality(Arrows(line)) # 1
            THEN call.err = "ValueError" /\ misspellings = pre.misspellings
            ELSE /\ call.err = "none"
                 /\ DOMAIN misspellings = {lower(SubSeq(line, 1, at - 1))}
                 /\ misspellings[lower(SubSeq(line, 1, at - 1))]
                        = ParseData(lower(SubSeq(line, at + 2, Len(line))))

\* a line with one "->" has been loaded under its key
C9_Witness ==
    /\ call.op = "load_dictionary_from_file"
    /\ call.lines = <<<<"A", "-", ">", "a">>>>
    /\ call.err = "none"
    /\ DOMAIN misspellings = {<<"a">>}

====
